---- MODULE Spec2Model ----
(***************************************************************************)
(* A model of the hardened IMC (body-mass-index) service of src/main.py:   *)
(* the FastAPI application, its two HTTP middlewares, its routes and the   *)
(* audit log blocked_ips.json.                                             *)
(*                                                                         *)
(* Text (URLs, query strings, the log file) is a sequence of one-character *)
(* strings, so that the regular-expression search, the query parsing, the  *)
(* float parsing and the JSON line format are computed, not assumed.       *)
(* A BMI value is a fixed-point number in hundredths (24.9 is 2490): every *)
(* decimal literal of the source and every input of the model has at most  *)
(* two decimals, and on those Python's float comparison agrees with the    *)
(* exact one.                                                              *)
(*                                                                         *)
(* Each request runs as a coroutine on one event loop (uvicorn.run, one    *)
(* process): control changes hands only at an await, so every action below *)
(* is the code between two awaits of one request.                          *)
(***************************************************************************)
EXTENDS Integers, Sequences, FiniteSets, TLC

VARIABLES
    log,        \* the content of BLOCKED_LOG (blocked_ips.json), a sequence of characters
    inflight,   \* one record per connection: the request it carries and where its coroutine stands
    logged      \* history: the entries handed to log_blocked_request, in call order

vars == <<log, inflight, logged>>

(***************************************************************************)
(* Bounds of the model.                                                    *)
(***************************************************************************)
\* Requests that will write to the log are accepted while it holds fewer lines.
MaxLog == 2
\* Connections served at once under SpecConc.
MaxConc == 2

(***************************************************************************)
(* Text helpers.                                                           *)
(***************************************************************************)
UpperToLower ==
    ("A" :> "a") @@ ("B" :> "b") @@ ("C" :> "c") @@ ("D" :> "d") @@ ("E" :> "e") @@
    ("F" :> "f") @@ ("G" :> "g") @@ ("H" :> "h") @@ ("I" :> "i") @@ ("J" :> "j") @@
    ("K" :> "k") @@ ("L" :> "l") @@ ("M" :> "m") @@ ("N" :> "n") @@ ("O" :> "o") @@
    ("P" :> "p") @@ ("Q" :> "q") @@ ("R" :> "r") @@ ("S" :> "s") @@ ("T" :> "t") @@
    ("U" :> "u") @@ ("V" :> "v") @@ ("W" :> "w") @@ ("X" :> "x") @@ ("Y" :> "y") @@
    ("Z" :> "z")

LowerChar(c) == IF c \in DOMAIN UpperToLower THEN UpperToLower[c] ELSE c

Lower(s) == [i \in 1..Len(s) |-> LowerChar(s[i])]

RECURSIVE IndexOf(_, _, _)
\* The first position >= i of character c in s, 0 when there is none.
IndexOf(s, c, i) ==
    IF i > Len(s) THEN 0
    ELSE IF s[i] = c THEN i
    ELSE IndexOf(s, c, i + 1)

RECURSIVE Split(_, _)
\* str.split(sep): the pieces of s between the occurrences of sep.
Split(s, sep) ==
    LET i == IndexOf(s, sep, 1)
    IN  IF i = 0 THEN <<s>>
        ELSE <<SubSeq(s, 1, i - 1)>> \o Split(SubSeq(s, i + 1, Len(s)), sep)

RECURSIVE Concat(_)
Concat(ss) == IF ss = <<>> THEN <<>> ELSE Head(ss) \o Concat(Tail(ss))

Contains(s, p) ==
    \E i \in 1..(Len(s) - Len(p) + 1) : SubSeq(s, i, i + Len(p) - 1) = p

(***************************************************************************)
(* SUSPICIOUS_PATTERNS: the alternatives of the regular expression, and    *)
(* its search under re.IGNORECASE.                                         *)
(***************************************************************************)
SUSPICIOUS_PATTERNS ==
    { <<"w", "p", "-">>,
      <<".", "e", "n", "v">>,
      <<".", "g", "i", "t">>,
      <<"p", "h", "p", "i", "n", "f", "o">>,
      <<"c", "m", "d", "=">>,
      <<"e", "x", "e", "c", "=">>,
      <<"s", "h", "e", "l", "l", "=">>,
      <<"c", "o", "m", "m", "a", "n", "d", "=">>,
      <<"/", "e", "t", "c", "/", "p", "a", "s", "s", "w", "d">>,
      <<".", "a", "w", "s">> }

\* SUSPICIOUS_PATTERNS.search(target) is not None
SuspiciousSearch(target) ==
    \E p \in SUSPICIOUS_PATTERNS : Contains(Lower(target), p)

(***************************************************************************)
(* The request: what the ASGI scope carries and the handlers read.         *)
(* client is the peer address, or NoClient when the scope has none         *)
(* (request.client is None).                                               *)
(***************************************************************************)
NoClient == "None"
Loopback == "127.0.0.1"
Remote == "203.0.113.9"

\* str(request.url): scheme, Host header, path, and "?" + query string when there is one.
UrlStr(r) ==
    <<"h", "t", "t", "p", ":", "/", "/">> \o r.host \o r.path
        \o (IF r.query = <<>> THEN <<>> ELSE <<"?">> \o r.query)

\* One name=value piece of a query string: split at its first "=", a blank value kept.
QueryPair(piece) ==
    LET i == IndexOf(piece, "=", 1)
    IN  IF i = 0 THEN [name |-> piece, value |-> <<>>]
        ELSE [name |-> SubSeq(piece, 1, i - 1), value |-> SubSeq(piece, i + 1, Len(piece))]

RECURSIVE PairsOf(_)
PairsOf(pieces) ==
    IF pieces = <<>> THEN <<>>
    ELSE IF Head(pieces) = <<>> THEN PairsOf(Tail(pieces))
    ELSE <<QueryPair(Head(pieces))>> \o PairsOf(Tail(pieces))

\* request.query_params: parse_qsl(query, keep_blank_values=True); empty pieces are skipped.
QueryParams(r) == PairsOf(Split(r.query, "&"))

\* query_params.get(name): the value of the last pair of that name; Missing when there is none.
Missing == <<"<missing>">>
RECURSIVE GetParam(_, _)
GetParam(pairs, name) ==
    IF pairs = <<>> THEN Missing
    ELSE LET last == pairs[Len(pairs)]
         IN  IF last.name = name THEN last.value
             ELSE GetParam(SubSeq(pairs, 1, Len(pairs) - 1), name)

(***************************************************************************)
(* The float a query value denotes, in hundredths.  The model reads plain  *)
(* decimals with at most two decimals ("25", "25.5", "-1.00"); any other   *)
(* text of the model's inputs ("abc", "") is no number.                    *)
(***************************************************************************)
DigitVal ==
    ("0" :> 0) @@ ("1" :> 1) @@ ("2" :> 2) @@ ("3" :> 3) @@ ("4" :> 4) @@
    ("5" :> 5) @@ ("6" :> 6) @@ ("7" :> 7) @@ ("8" :> 8) @@ ("9" :> 9)

AllDigits(s) == \A i \in 1..Len(s) : s[i] \in DOMAIN DigitVal

RECURSIVE DigitsValue(_)
DigitsValue(s) ==
    IF s = <<>> THEN 0
    ELSE 10 * DigitsValue(SubSeq(s, 1, Len(s) - 1)) + DigitVal[s[Len(s)]]

NotANumber == [ok |-> FALSE, val |-> 0]

ParseFloat(s) ==
    LET neg == s # <<>> /\ Head(s) = "-"
        body == IF neg THEN Tail(s) ELSE s
        parts == Split(body, ".")
        int == parts[1]
        frac == IF Len(parts) = 2 THEN parts[2] ELSE <<>>
        cents == IF Len(frac) = 0 THEN 0
                 ELSE IF Len(frac) = 1 THEN 10 * DigitsValue(frac)
                 ELSE DigitsValue(frac)
    IN  IF Len(parts) > 2 \/ Len(frac) > 2 \/ (int = <<>> /\ frac = <<>>)
           \/ ~AllDigits(int) \/ ~AllDigits(frac)
        THEN NotANumber
        ELSE [ok |-> TRUE,
              val |-> (IF neg THEN -1 ELSE 1) * (100 * DigitsValue(int) + cents)]

(***************************************************************************)
(* classificar_imc, on hundredths.                                         *)
(***************************************************************************)
Classificacao(nome, grau) == [classificacao |-> nome, obesidade_grau |-> grau]

\* classificar_imc with the second range's upper comparison written "<" instead of "<=".
classificar_imc_open_normal(imc) ==
    IF imc < 1850 THEN Classificacao("Magreza", 0)
    ELSE IF 1850 <= imc /\ imc < 2490 THEN Classificacao("Normal", 0)
    ELSE IF 2500 <= imc /\ imc <= 2990 THEN Classificacao("Sobrepeso", 1)
    ELSE IF 3000 <= imc /\ imc <= 3990 THEN Classificacao("Obesidade", 2)
    ELSE Classificacao("Obesidade Grave", 3)

classificar_imc(imc) ==
    IF imc < 1850 THEN Classificacao("Magreza", 0)
    ELSE IF 1850 <= imc /\ imc <= 2490 THEN Classificacao("Normal", 0)
    ELSE IF 2500 <= imc /\ imc <= 2990 THEN Classificacao("Sobrepeso", 1)
    ELSE IF 3000 <= imc /\ imc <= 3990 THEN Classificacao("Obesidade", 2)
    ELSE Classificacao("Obesidade Grave", 3)

(***************************************************************************)
(* only_valor: Query(..., gt=0, le=200) on the query parameter valor.      *)
(***************************************************************************)
\* The constraint written ge=0 instead of gt=0.
ValorInRange_ge(valor) == valor >= 0 /\ valor <= 20000

\* gt=0, le=200
ValorInRange(valor) == valor > 0 /\ valor <= 20000

only_valor(r) ==
    LET raw == GetParam(QueryParams(r), <<"v", "a", "l", "o", "r">>)
        f == IF raw = Missing THEN NotANumber ELSE ParseFloat(raw)
    IN  IF f.ok /\ ValorInRange(f.val) THEN f ELSE NotANumber

(***************************************************************************)
(* The audit entry and its line in the log.  The entry's ip, method, path  *)
(* and query are modelled; its timestamp, user_agent and headers are read  *)
(* from the clock and the request headers and no handler looks at them.    *)
(* geo is geoip_lookup(ip) with geo_reader = None: the GeoLite2 database   *)
(* is not part of the repository, and the lookup then returns {}.          *)
(***************************************************************************)
geoip_lookup(ip) == <<"{", "}">>

Entry(r) ==
    [ip |-> IF r.client = NoClient THEN "unknown" ELSE r.client,
     method |-> r.method,
     path |-> r.path,
     query |-> r.query]

\* json.dumps of a string: quoted, with quote and backslash escaped.
JsonEscapeChar(c) ==
    IF c = "\"" THEN <<"\\", "\"">>
    ELSE IF c = "\\" THEN <<"\\", "\\">>
    ELSE <<c>>

JsonString(s) == <<"\"">> \o Concat([i \in 1..Len(s) |-> JsonEscapeChar(s[i])]) \o <<"\"">>

\* json.dumps(entry, ensure_ascii=False)
JsonDumps(e) ==
    <<"{", "\"ip\": ">> \o JsonString(<<e.ip>>)
        \o <<", ", "\"method\": ">> \o JsonString(<<e.method>>)
        \o <<", ", "\"path\": ">> \o JsonString(e.path)
        \o <<", ", "\"query\": ">> \o JsonString(e.query)
        \o <<", ", "\"geo\": ">> \o geoip_lookup(e.ip)
        \o <<"}">>

\* The write without its line terminator.
LogLine_unterminated(e) == JsonDumps(e)

\* What f.write receives: json.dumps(entry) + "\n"
LogLine(e) == JsonDumps(e) \o <<"\n">>

\* The file after log_blocked_request(request): opened in mode "a", one write, closed.
\* The function holds no await, so no other request runs between its open and its close.
log_blocked_request(r, file) == file \o LogLine(Entry(r))

(***************************************************************************)
(* Responses.  A handler's outcome is the response it returns (or the      *)
(* exception it lets escape), the functions of main.py that ran for the    *)
(* request, and the log file as it leaves it.                              *)
(***************************************************************************)
NoBody == [kind |-> "empty", imc |-> 0, classificacao |-> "", obesidade_grau |-> 0]
Body(kind) == [NoBody EXCEPT !.kind = kind]

Response(status, body) == [status |-> status, headers |-> {}, body |-> body]
NoResponse == Response(0, NoBody)

\* raise HTTPException(status_code=404): FastAPI's handler answers {"detail": "Not Found"}
HTTPException404 == Response(404, Body("detail: Not Found"))
\* A parameter that fails validation: FastAPI answers 422 before the endpoint is called.
ValidationError422 == Response(422, Body("detail: validation error"))
\* An exception no handler catches: Starlette's ServerErrorMiddleware, outside every
\* middleware of main.py, answers 500.
InternalServerError500 == Response(500, Body("Internal Server Error"))

Outcome(resp, ran, file) == [resp |-> resp, ran |-> ran, raised |-> FALSE, file |-> file]
Raised(ran, file) == [resp |-> NoResponse, ran |-> ran, raised |-> TRUE, file |-> file]

(***************************************************************************)
(* Endpoints.                                                              *)
(***************************************************************************)
\* root without its test of request.query_params.
root_any_query(r, file) == Outcome(Response(200, Body("root info")), {"root"}, file)

root(r, file) ==
    IF QueryParams(r) # <<>>
    THEN Outcome(HTTPException404, {"root"}, file)
    ELSE Outcome(Response(200, Body("root info")), {"root"}, file)

calcular_imc(r, file) ==
    LET v == only_valor(r)
    IN  IF ~v.ok
        THEN Outcome(ValidationError422, {}, file)
        ELSE LET c == classificar_imc(v.val)
             IN  Outcome(Response(200, [kind |-> "imc", imc |-> v.val,
                                        classificacao |-> c.classificacao,
                                        obesidade_grau |-> c.obesidade_grau]),
                         {"only_valor", "calcular_imc", "classificar_imc"}, file)

health_check(r, file) ==
    IF r.client = NoClient
    THEN Raised({"health_check"}, file)      \* None has no attribute host: AttributeError
    ELSE IF r.client # Loopback
    THEN Outcome(HTTPException404, {"health_check"}, file)
    ELSE Outcome(Response(200, Body("status: ok")), {"health_check"}, file)

method_not_allowed(r, file) ==
    Outcome(Response(404, NoBody), {"method_not_allowed", "log_blocked_request"},
            log_blocked_request(r, file))

(***************************************************************************)
(* Routing.  app = FastAPI(...) keeps the default openapi_url, docs_url    *)
(* and redoc_url, so the application registers its documentation routes    *)
(* first, as GET routes (which Starlette also serves for HEAD); the routes *)
(* of main.py follow in the order they are declared.  The first route that *)
(* matches path and method wins; when only the path matches a route, the   *)
(* router answers 405.  The catch-all "/{path:path}" matches every path.   *)
(***************************************************************************)
PathRoot == <<"/">>
PathImc == <<"/", "i", "m", "c">>
PathHealth == <<"/", "h", "e", "a", "l", "t", "h">>
PathOpenapi == <<"/", "o", "p", "e", "n", "a", "p", "i", ".", "j", "s", "o", "n">>
PathDocs == <<"/", "d", "o", "c", "s">>
PathDocsRedirect == PathDocs \o <<"/", "o", "a", "u", "t", "h", "2", "-", "r", "e", "d", "i", "r", "e", "c", "t">>
PathRedoc == <<"/", "r", "e", "d", "o", "c">>

DocsPaths == {PathOpenapi, PathDocs, PathDocsRedirect, PathRedoc}

\* methods=["POST", "PUT", "DELETE", "PATCH", "HEAD"]
DeniedMethods == {"POST", "PUT", "DELETE", "PATCH", "HEAD"}

Route(r) ==
    IF r.path \in DocsPaths /\ r.method \in {"GET", "HEAD"} THEN "docs"
    ELSE IF r.path = PathRoot /\ r.method = "GET" THEN "root"
    ELSE IF r.path = PathImc /\ r.method = "GET" THEN "calcular_imc"
    ELSE IF r.path = PathHealth /\ r.method = "GET" THEN "health_check"
    ELSE IF r.method \in DeniedMethods THEN "method_not_allowed"
    ELSE "405"

\* The documentation endpoints FastAPI adds.
docs(r, file) == Outcome(Response(200, Body("docs")), {"docs"}, file)

\* The path matches a route and the method none.
router_405(r, file) == Outcome(Response(405, Body("detail: Method Not Allowed")), {}, file)

(***************************************************************************)
(* Middlewares.  security_headers is registered last, so it is the outer   *)
(* one: it wraps block_scanners, which wraps the router.                   *)
(***************************************************************************)
\* The search without re.IGNORECASE.
block_scanners_matches_cased(r) == \E p \in SUSPICIOUS_PATTERNS : Contains(UrlStr(r), p)

\* SUSPICIOUS_PATTERNS.search(str(request.url))
block_scanners_matches(r) == SuspiciousSearch(UrlStr(r))

\* The branch of block_scanners that answers without calling call_next.
block_scanners_blocked(r, file) ==
    Outcome(Response(404, Body("detail: Not found")), {"log_blocked_request"},
            log_blocked_request(r, file))

HardeningHeaders ==
    { <<"X-Content-Type-Options", "nosniff">>,
      <<"X-Frame-Options", "DENY">>,
      <<"Referrer-Policy", "no-referrer">> }

\* What the client receives once call_next returned (or raised) in security_headers:
\* the response with the three headers set, or, when the endpoint's exception passed
\* through both middlewares, the server's 500.
security_headers(out) ==
    IF out.raised
    THEN [out EXCEPT !.resp = InternalServerError500]
    ELSE [out EXCEPT !.resp.headers = @ \cup HardeningHeaders]

(***************************************************************************)
(* The requests the model sends.                                           *)
(***************************************************************************)
Req(method, host, path, query, client) ==
    [method |-> method, host |-> host, path |-> path, query |-> query, client |-> client]

HostApi == <<"a", "p", "i">>
HostGit == <<"a", ".", "g", "i", "t", "h", "u", "b", ".", "i", "o">>

PathUnknown == <<"/", "a", "\"", "b">>
PathEnv == <<"/", ".", "e", "n", "v">>
PathWp == <<"/", "W", "P", "-", "a", "d", "m", "i", "n">>

DigitChar == <<"0", "1", "2", "3", "4", "5", "6", "7", "8", "9">>

RECURSIVE NatStr(_)
NatStr(n) ==
    IF n < 10 THEN <<DigitChar[n + 1]>>
    ELSE NatStr(n \div 10) \o <<DigitChar[(n % 10) + 1]>>

\* The decimal text of a value given in hundredths: 2490 is "24.90", -100 is "-1.00".
FormatValor(v) ==
    LET a == IF v < 0 THEN -v ELSE v
    IN  (IF v < 0 THEN <<"-">> ELSE <<>>) \o NatStr(a \div 100)
            \o <<".", DigitChar[((a \div 10) % 10) + 1], DigitChar[(a % 10) + 1]>>

\* Every boundary of classificar_imc and of only_valor, with a neighbour on each side.
ValorSamples ==
    {-100, 0, 1, 1849, 1850, 2490, 2495, 2500, 2550, 2990, 2995, 3000, 3990, 3995,
     4000, 20000, 20001}

QNone == <<>>
QValorEq == <<"v", "a", "l", "o", "r", "=">>
QValor(v) == QValorEq \o FormatValor(v)
QValorAbc == QValorEq \o <<"a", "b", "c">>
QValorInt == QValorEq \o <<"2", "5">>
QValorTwice == QValor(2550) \o <<"&">> \o QValorEq \o <<"3", "0", "0">>
QValorCmd == QValor(2550) \o <<"&", "c", "m", "d", "=", "l", "s">>
QPeso == <<"p", "e", "s", "o", "=", "7", "0">>
QFoo == <<"f", "o", "o", "=", "b", "a", "r">>
QCmd == <<"c", "m", "d", "=", "l", "s">>
QAmp == <<"&">>

ImcRequests ==
    { Req("GET", HostApi, PathImc, q, Remote) :
        q \in {QValor(v) : v \in ValorSamples}
                \cup {QNone, QValorAbc, QValorInt, QValorTwice, QValorCmd, QPeso} }

RootRequests ==
    { Req("GET", HostApi, PathRoot, q, Remote) : q \in {QNone, QFoo, QCmd, QAmp} }
        \cup { Req("GET", HostGit, PathRoot, QNone, Remote) }

HealthRequests ==
    { Req("GET", HostApi, PathHealth, QNone, c) : c \in {Loopback, Remote, NoClient} }

OtherRequests ==
    { Req("GET", HostApi, p, QNone, Remote) : p \in {PathDocs, PathUnknown, PathEnv, PathWp} }
        \cup { Req("OPTIONS", HostApi, PathRoot, QNone, Remote) }

DeniedRequests ==
    { Req("POST", HostApi, p, QNone, Remote) : p \in {PathRoot, PathUnknown, PathDocs, PathEnv} }
        \cup { Req("HEAD", HostApi, p, QNone, Remote) : p \in {PathRoot, PathDocs, PathOpenapi} }
        \cup { Req("PUT", HostApi, PathUnknown, QNone, NoClient),
               Req("DELETE", HostApi, PathImc, QNone, Remote),
               Req("PATCH", HostApi, PathHealth, QNone, Remote) }

Requests == ImcRequests \cup RootRequests \cup HealthRequests \cup OtherRequests \cup DeniedRequests

\* The requests of the concurrent specification: one for every endpoint and branch.
ConcRequests ==
    { Req("GET", HostApi, PathRoot, QNone, Remote),
      Req("GET", HostApi, PathImc, QValor(2550), Remote),
      Req("GET", HostApi, PathHealth, QNone, Loopback),
      Req("GET", HostApi, PathDocs, QNone, Remote),
      Req("GET", HostApi, PathUnknown, QNone, Remote),
      Req("GET", HostApi, PathEnv, QNone, Remote),
      Req("POST", HostApi, PathUnknown, QNone, NoClient) }

(***************************************************************************)
(* The state machine.  A connection is idle, or carries a request whose    *)
(* coroutine stands before block_scanners' test, before the endpoint,      *)
(* before security_headers' header assignments, or has sent its response.  *)
(***************************************************************************)
IsPrefix(a, b) == Len(a) <= Len(b) /\ SubSeq(b, 1, Len(a)) = a

\* What a connection keeps of an outcome: the response, the functions that ran, and
\* what the outcome did to the log file it found (history): whether it kept the
\* content that was there, and the characters it wrote after it.
Effect(out, before) ==
    [resp |-> out.resp, ran |-> out.ran, raised |-> out.raised,
     kept |-> IsPrefix(before, out.file),
     wrote |-> IF IsPrefix(before, out.file)
               THEN SubSeq(out.file, Len(before) + 1, Len(out.file))
               ELSE out.file]

NoRequest == Req("", <<>>, <<>>, <<>>, NoClient)
NoOutcome == Effect(Outcome(NoResponse, {}, <<>>), <<>>)
Idle == [pc |-> "idle", req |-> NoRequest, out |-> NoOutcome]

\* Whether the request is one the code logs: the model's bound on the log counts them.
WillLog(r) == block_scanners_matches(r) \/ Route(r) = "method_not_allowed"

Pending == { s \in DOMAIN inflight :
               inflight[s].pc \in {"block_scanners", "endpoint"} /\ WillLog(inflight[s].req) }

Init ==
    /\ log = <<>>
    /\ logged = <<>>
    /\ inflight = <<Idle>>

InitConc ==
    /\ log = <<>>
    /\ logged = <<>>
    /\ inflight = [s \in 1..MaxConc |-> Idle]

\* A request arrives; security_headers awaits call_next.
Arrive(s, r) ==
    /\ inflight[s].pc = "idle"
    /\ WillLog(r) => Len(logged) + Cardinality(Pending) < MaxLog
    /\ inflight' = [inflight EXCEPT ![s] =
                       [pc |-> "block_scanners", req |-> r, out |-> NoOutcome]]
    /\ UNCHANGED <<log, logged>>

\* The outcome of the code that answers the request, recorded with its effect on the log.
Answer(s, out) ==
    /\ inflight' = [inflight EXCEPT ![s].pc = "security_headers", ![s].out = Effect(out, log)]
    /\ log' = out.file
    /\ logged' = IF "log_blocked_request" \in out.ran
                 THEN Append(logged, Entry(inflight[s].req))
                 ELSE logged

\* block_scanners, the URL matches: log and answer 404 without calling call_next.
BlockScannersBlock(s) ==
    /\ inflight[s].pc = "block_scanners"
    /\ block_scanners_matches(inflight[s].req)
    /\ Answer(s, block_scanners_blocked(inflight[s].req, log))

\* block_scanners, no match: await call_next(request).
BlockScannersPass(s) ==
    /\ inflight[s].pc = "block_scanners"
    /\ ~block_scanners_matches(inflight[s].req)
    /\ inflight' = [inflight EXCEPT ![s].pc = "endpoint"]
    /\ UNCHANGED <<log, logged>>

Docs(s) ==
    /\ inflight[s].pc = "endpoint"
    /\ Route(inflight[s].req) = "docs"
    /\ Answer(s, docs(inflight[s].req, log))

Root(s) ==
    /\ inflight[s].pc = "endpoint"
    /\ Route(inflight[s].req) = "root"
    /\ Answer(s, root(inflight[s].req, log))

CalcularImc(s) ==
    /\ inflight[s].pc = "endpoint"
    /\ Route(inflight[s].req) = "calcular_imc"
    /\ Answer(s, calcular_imc(inflight[s].req, log))

HealthCheck(s) ==
    /\ inflight[s].pc = "endpoint"
    /\ Route(inflight[s].req) = "health_check"
    /\ Answer(s, health_check(inflight[s].req, log))

MethodNotAllowed(s) ==
    /\ inflight[s].pc = "endpoint"
    /\ Route(inflight[s].req) = "method_not_allowed"
    /\ Answer(s, method_not_allowed(inflight[s].req, log))

Router405(s) ==
    /\ inflight[s].pc = "endpoint"
    /\ Route(inflight[s].req) = "405"
    /\ Answer(s, router_405(inflight[s].req, log))

\* security_headers resumes after call_next and the response is sent.
SecurityHeaders(s) ==
    /\ inflight[s].pc = "security_headers"
    /\ inflight' = [inflight EXCEPT ![s].pc = "sent",
                                    ![s].out = security_headers(inflight[s].out)]
    /\ UNCHANGED <<log, logged>>

\* The connection is free for the next request.
Close(s) ==
    /\ inflight[s].pc = "sent"
    /\ inflight' = [inflight EXCEPT ![s] = Idle]
    /\ UNCHANGED <<log, logged>>

Conns == DOMAIN inflight

Steps ==
    \/ \E s \in Conns : BlockScannersBlock(s)
    \/ \E s \in Conns : BlockScannersPass(s)
    \/ \E s \in Conns : Docs(s)
    \/ \E s \in Conns : Root(s)
    \/ \E s \in Conns : CalcularImc(s)
    \/ \E s \in Conns : HealthCheck(s)
    \/ \E s \in Conns : MethodNotAllowed(s)
    \/ \E s \in Conns : Router405(s)
    \/ \E s \in Conns : SecurityHeaders(s)
    \/ \E s \in Conns : Close(s)

Next ==
    \/ \E s \in Conns : \E r \in Requests : Arrive(s, r)
    \/ Steps

NextConc ==
    \/ \E s \in Conns : \E r \in ConcRequests : Arrive(s, r)
    \/ Steps

\* One request at a time.
Spec == Init /\ [][Next]_vars

\* MaxConc requests served concurrently on the event loop.
SpecConc == InitConc /\ [][NextConc]_vars

(***************************************************************************)
(* Properties.  Each is about the connections whose response has been      *)
(* sent: the request, the response, the functions that ran for it and what *)
(* it wrote to the log.                                                    *)
(***************************************************************************)
SentConns == { s \in Conns : inflight[s].pc = "sent" }

\* The URL matches the suspicious pattern, as the specification words it.
Suspicious(r) == SuspiciousSearch(UrlStr(r))

\* The request wrote exactly its own audit line after what the log held.
WroteOwnEntry(c) == c.out.kept /\ c.out.wrote = JsonDumps(Entry(c.req)) \o <<"\n">>

\* The request left the log as it found it.
WroteNothing(c) == c.out.kept /\ c.out.wrote = <<>>

RouteHandlers == {"root", "calcular_imc", "health_check", "method_not_allowed"}

Is(body, nome, grau) == body.classificacao = nome /\ body.obesidade_grau = grau

\* C1: classificar_imc follows the range table on every row of the table: below 18.5
\* Magreza/0, 18.5..24.9 Normal/0, 25.0..29.9 Sobrepeso/1, 30.0..39.9 Obesidade/2,
\* from 40.0 Obesidade Grave/3, the seven boundary values included.
C1_RangeTable ==
    \A s \in SentConns :
        LET b == inflight[s].out.resp.body
            v == b.imc
        IN  "classificar_imc" \in inflight[s].out.ran =>
              /\ (0 < v /\ v < 1850) => Is(b, "Magreza", 0)
              /\ (1850 <= v /\ v <= 2490) => Is(b, "Normal", 0)
              /\ (2500 <= v /\ v <= 2990) => Is(b, "Sobrepeso", 1)
              /\ (3000 <= v /\ v <= 3990) => Is(b, "Obesidade", 2)
              /\ (v >= 4000) => Is(b, "Obesidade Grave", 3)

\* C1's case: the boundary value 24.9 was classified, as Normal.
C1_Witness ==
    \E s \in SentConns :
        /\ "classificar_imc" \in inflight[s].out.ran
        /\ inflight[s].out.resp.body.imc = 2490
        /\ Is(inflight[s].out.resp.body, "Normal", 0)

Rank == ("Magreza" :> 0) @@ ("Normal" :> 1) @@ ("Sobrepeso" :> 2) @@ ("Obesidade" :> 3)
            @@ ("Obesidade Grave" :> 4)

\* C2: the five categories are contiguous ranges of imc > 0 in the order Magreza, Normal,
\* Sobrepeso, Obesidade, Obesidade Grave: a smaller input never gets a later category than
\* the input classified, and Obesidade Grave is returned only from 40.0 on.
C2_ContiguousRanges ==
    \A s \in SentConns :
        LET b == inflight[s].out.resp.body
        IN  "classificar_imc" \in inflight[s].out.ran =>
              /\ \A a \in ValorSamples :
                    (0 < a /\ a < b.imc) =>
                        Rank[classificar_imc(a).classificacao] <= Rank[b.classificacao]
              /\ b.classificacao = "Obesidade Grave" => b.imc >= 4000

\* C3: a request whose URL matches the suspicious pattern is answered 404, writes exactly
\* its own audit entry, and no route handler and no classification runs for it; a request
\* that does not match reaches routing with nothing written by the middleware.
C3_BlockedNeverRouted ==
    \A s \in Conns :
        LET c == inflight[s]
        IN  /\ (c.pc = "sent" /\ Suspicious(c.req)) =>
                  /\ c.out.resp.status = 404
                  /\ WroteOwnEntry(c)
                  /\ c.out.ran \cap (RouteHandlers \cup {"classificar_imc", "docs"}) = {}
            /\ c.pc = "endpoint" => (~Suspicious(c.req) /\ c.out = NoOutcome)
            /\ (c.pc = "sent" /\ ~Suspicious(c.req) /\ c.out.wrote # <<>>) =>
                  "method_not_allowed" \in c.out.ran

\* C3's case: a GET to /WP-admin (a match only when case is ignored) was answered 404
\* with its entry written.
C3_Witness ==
    \E s \in SentConns :
        /\ inflight[s].req.path = PathWp
        /\ inflight[s].out.resp.status = 404
        /\ WroteOwnEntry(inflight[s])

\* C4: every POST, PUT, DELETE, PATCH or HEAD request, on any path, is answered 404 and
\* writes exactly one audit entry, its own; no GET handler runs for it.
C4_DeniedMethods ==
    \A s \in SentConns :
        LET c == inflight[s]
        IN  c.req.method \in {"POST", "PUT", "DELETE", "PATCH", "HEAD"} =>
              /\ c.out.resp.status = 404
              /\ WroteOwnEntry(c)
              /\ c.out.ran \cap {"root", "calcular_imc", "health_check", "docs"} = {}

\* C5: a GET to /imc that passes the blocklist is answered 200 with imc = valor and the
\* classification of valor when valor is present, numeric and 0 < valor <= 200; otherwise
\* it is answered 422, classificar_imc is not invoked and the log is unchanged.
C5_StrictValor ==
    \A s \in SentConns :
        LET c == inflight[s]
            raw == GetParam(QueryParams(c.req), <<"v", "a", "l", "o", "r">>)
            f == IF raw = Missing THEN NotANumber ELSE ParseFloat(raw)
            b == c.out.resp.body
        IN  (c.req.method = "GET" /\ c.req.path = PathImc /\ ~Suspicious(c.req)) =>
              IF f.ok /\ 0 < f.val /\ f.val <= 20000
              THEN /\ c.out.resp.status = 200
                   /\ b.imc = f.val
                   /\ "classificar_imc" \in c.out.ran
                   /\ Classificacao(b.classificacao, b.obesidade_grau) = classificar_imc(f.val)
                   /\ WroteNothing(c)
              ELSE /\ c.out.resp.status = 422
                   /\ "classificar_imc" \notin c.out.ran
                   /\ WroteNothing(c)

\* C5's case: /imc?valor=0.00 was answered 422 without a classification.
C5_Witness ==
    \E s \in SentConns :
        /\ inflight[s].req.path = PathImc
        /\ inflight[s].req.query = QValor(0)
        /\ inflight[s].out.resp.status = 422
        /\ "classificar_imc" \notin inflight[s].out.ran

\* C6: every response the service sends carries the three hardening headers.
C6_HeadersOnEveryResponse ==
    \A s \in SentConns :
        { <<"X-Content-Type-Options", "nosniff">>,
          <<"X-Frame-Options", "DENY">>,
          <<"Referrer-Policy", "no-referrer">> } \subseteq inflight[s].out.resp.headers

IsRootGet(c) == c.req.method = "GET" /\ c.req.path = PathRoot

\* C7, as claimed: a GET to / with any query parameter is answered 404 and leaves the log
\* unchanged, for every query string; with no query parameter it is answered 200 with the
\* static payload.
C7_RootNoParams ==
    \A s \in SentConns :
        LET c == inflight[s]
        IN  IsRootGet(c) =>
              IF QueryParams(c.req) # <<>>
              THEN c.out.resp.status = 404 /\ WroteNothing(c)
              ELSE c.out.resp.status = 200 /\ c.out.resp.body.kind = "root info"

\* C7, amended: a GET to / with any query parameter is answered 404; it leaves the log
\* unchanged unless its URL matches the suspicious pattern, and then it writes exactly its
\* own entry; a GET to / with no query parameter whose URL does not match the pattern is
\* answered 200 with the static payload and leaves the log unchanged.
C7_RootNoParamsUnlessBlocked ==
    \A s \in SentConns :
        LET c == inflight[s]
        IN  IsRootGet(c) =>
              /\ QueryParams(c.req) # <<>> =>
                    /\ c.out.resp.status = 404
                    /\ IF Suspicious(c.req) THEN WroteOwnEntry(c) ELSE WroteNothing(c)
              /\ (QueryParams(c.req) = <<>> /\ ~Suspicious(c.req)) =>
                    /\ c.out.resp.status = 200
                    /\ c.out.resp.body.kind = "root info"
                    /\ WroteNothing(c)

\* C7's case: /?foo=bar was answered 404 by root and nothing was written.
C7_Witness ==
    \E s \in SentConns :
        /\ IsRootGet(inflight[s])
        /\ inflight[s].req.query = QFoo
        /\ "root" \in inflight[s].out.ran
        /\ inflight[s].out.resp.status = 404
        /\ WroteNothing(inflight[s])

\* C8: a GET to /health (one that reaches health_check) is answered 200 only for the
\* loopback caller; for every other caller, one with no client address included, it is
\* answered 404, never by an unhandled fault, and nothing is written to the log.
C8_HealthLoopbackOnly ==
    \A s \in SentConns :
        LET c == inflight[s]
        IN  (c.req.method = "GET" /\ c.req.path = PathHealth /\ ~Suspicious(c.req)) =>
              /\ c.out.resp.status = 200 => c.req.client = "127.0.0.1"
              /\ c.req.client # "127.0.0.1" =>
                    (c.out.resp.status = 404 /\ ~c.out.raised /\ WroteNothing(c))

\* C9: with requests that log served concurrently, every line of the log is one whole
\* audit entry, in the order the entries were logged, and the log has as many lines as
\* requests were logged; nothing follows the last line terminator.
C9_WholeLines ==
    Split(log, "\n") = [i \in 1..Len(logged) |-> JsonDumps(logged[i])] \o << <<>> >>

\* C9's case: two requests in flight at once have both written their entry.
C9_Witness ==
    \E s, t \in Conns :
        /\ s # t
        /\ inflight[s].pc = "security_headers" /\ inflight[s].out.wrote # <<>>
        /\ inflight[t].pc = "security_headers" /\ inflight[t].out.wrote # <<>>
        /\ Len(logged) = 2

\* C10: the log is append-only and exact: a request never changes what the log held,
\* adds at most one entry, and adds one if and only if it was blocked by the suspicious
\* pattern or used POST, PUT, DELETE, PATCH or HEAD.
C10_LogExact ==
    \A s \in SentConns :
        LET c == inflight[s]
        IN  /\ c.out.kept
            /\ c.out.wrote = <<>> \/ WroteOwnEntry(c)
            /\ c.out.wrote # <<>> <=>
                  (Suspicious(c.req) \/ c.req.method \in {"POST", "PUT", "DELETE", "PATCH", "HEAD"})

====
